---- MODULE Spec2Model ----
(***************************************************************************)
(* Drainage network generation and optimization engine                     *)
(* (src/src/lib/drainage-calculations.ts).                                 *)
(*                                                                         *)
(* The source computes in IEEE doubles.  The model computes in decimal     *)
(* fixed point; every quantity carries its scale in a comment:             *)
(*   area              0.01 ha         runoffCoeff       0.01              *)
(*   rainfallIntensity 1 mm/hr         slope             0.001 %           *)
(*   unrounded flow    1e-5 m3/s       unrounded velocity 1e-4 m/s         *)
(*   unrounded fill    1e-4            stored velocity/fill 0.01           *)
(*   stored flowRate   1e-4 m3/s       length            0.1 m             *)
(*   elevations        1 mm            estimateNetworkCost 1 rupee         *)
(*   totalCost         0.1 lakh        candidate cost    0.01 lakh         *)
(*   Math.random()     0.001                                               *)
(***************************************************************************)
EXTENDS Integers, Sequences, FiniteSets, TLC

\* ------------------------------------------------------------------------
\* Arithmetic helpers (Math.round, Math.min, Math.max, Math.sqrt, Math.pow)
\* ------------------------------------------------------------------------

\* Math.round(num/den) for den > 0: nearest integer, halves towards +infinity
RoundDiv(num, den) == (num + den \div 2) \div den

Min(a, b) == IF a <= b THEN a ELSE b

Max(a, b) == IF a >= b THEN a ELSE b

\* round(a * b / 100000) without leaving 32 bits (0 <= b <= 250000)
MulDivE5(a, b) ==
    RoundDiv((a \div 1000) * b + RoundDiv((a % 1000) * b, 1000), 100)

RECURSIVE RootSearch(_, _, _)
\* largest x in lo..hi with x^2 <= n, by bisection
RootSearch(n, lo, hi) ==
    IF lo >= hi THEN lo
    ELSE LET mid == (lo + hi + 1) \div 2
         IN  IF mid * mid <= n THEN RootSearch(n, mid, hi)
                               ELSE RootSearch(n, lo, mid - 1)

\* floor(Math.sqrt(n)), 0 <= n < 2^31
ISqrt(n) == RootSearch(n, 0, 46340)

\* round-down of 100 * n^(1/3), 0 <= n < 1289^3: integer cube root, then the
\* fraction by linear interpolation between y^3 and (y+1)^3
Cbrt100(n) ==
    LET y == CHOOSE x \in 0..1288 :
                 x * x * x <= n /\ (x + 1) * (x + 1) * (x + 1) > n
    IN  y * 100 + ((n - y * y * y) * 100) \div (3 * y * y + 3 * y + 1)

\* ------------------------------------------------------------------------
\* Configuration tables
\* ------------------------------------------------------------------------

\* BENGALURU_RATES.pvc_pipe_per_m: rupees per metre by diameter (mm)
pvc_pipe_per_m ==
    (150 :> 350) @@ (200 :> 520) @@ (250 :> 750) @@ (300 :> 980) @@
    (375 :> 1450) @@ (450 :> 2100) @@ (525 :> 2900) @@ (600 :> 3800) @@
    (750 :> 5500) @@ (900 :> 7800) @@ (1050 :> 10200) @@ (1200 :> 13500)

\* BENGALURU_RATES.rcc_pipe_per_m
rcc_pipe_per_m ==
    (300 :> 1200) @@ (375 :> 1650) @@ (450 :> 2300) @@ (525 :> 3100) @@
    (600 :> 4200) @@ (750 :> 6000) @@ (900 :> 8500) @@ (1050 :> 11000) @@
    (1200 :> 15000)

\* BENGALURU_RATES.manhole_cost: rupees per unit by depth class
manhole_cost == [shallow |-> 18000, medium |-> 28000, deep |-> 45000]

labor_per_day == 800

excavation_per_m3 == 350

backfill_per_m3 == 180

\* IMD_RAINFALL_DATA.extreme_event, mm/hr
extreme_event == 150

\* NBC_CONSTRAINTS
\* min_velocity 0.6 m/s, in 1e-4 m/s
min_velocity == 6000

\* max_velocity 3.0 m/s, in 1e-4 m/s
max_velocity == 30000

\* max_fill_ratio 0.80, in 0.01
max_fill_ratio == 80

\* min_pipe_dia, mm
min_pipe_dia == 150

\* max_manhole_spacing 60 m, in 0.1 m
max_manhole_spacing == 600

\* min_slope 0.5 %, in 0.001 %
min_slope == 500

\* max_slope 10 %, in 0.001 %
max_slope == 10000

STANDARD_DIAMETERS ==
    <<150, 200, 250, 300, 375, 450, 525, 600, 750, 900, 1050, 1200>>

\* ------------------------------------------------------------------------
\* Hydraulic formula library
\* ------------------------------------------------------------------------

\* calcPeakRunoff: Q = C*I*A/360, in 1e-5 m3/s
\* (runoffCoeff/100) * I * (area/100) / 360 * 1e5 = C*I*A/36
calcPeakRunoff(params) ==
    RoundDiv(params.runoffCoeff * params.rainfallIntensity * params.area, 36)

\* default arguments of manningsFlow / pipeVelocity: fillRatio = 0.8 (the
\* only value any caller passes), roughness = 0.013 in 0.001
roughness == 13

\* theta = 2 * Math.acos(1 - 2 * 0.8) = 4.428595 rad, in 0.001 rad
Theta == 4429

\* theta - Math.sin(theta) = 4.428595 + 0.96 = 5.388595, in 0.001
ThetaMinusSin == 5389

\* A = (d*d/8) * (theta - sin theta), in mm2 (d in mm)
WettedArea(diameterMm) ==
    LET dd == diameterMm * diameterMm
    IN  (dd \div 8000) * ThetaMinusSin
          + RoundDiv((dd % 8000) * ThetaMinusSin, 8000)

\* P = (d/2) * theta, in 0.1 mm
WettedPerimeter(diameterMm) == RoundDiv(diameterMm * Theta, 200)

\* R = A / P, in 1e-5 m
HydraulicRadius(diameterMm) ==
    RoundDiv(WettedArea(diameterMm) * 1000, WettedPerimeter(diameterMm))

\* Math.pow(R, 2/3) for the hydraulic radius of a diameter, in 1e-5: the
\* cube root of R^2 (R^2 taken in 1e-9 m2)
RadiusPow23(diameterMm) ==
    LET R == HydraulicRadius(diameterMm)
    IN  Cbrt100((R * R) \div 10)

\* A and Math.pow(R, 2/3) of the catalog diameters, evaluated once
CatalogGeometry ==
    [d \in {STANDARD_DIAMETERS[k] : k \in 1..Len(STANDARD_DIAMETERS)} |->
        [A |-> WettedArea(d), R23 |-> RadiusPow23(d)]]

\* A and Math.pow(R, 2/3) of any diameter
Geometry(diameterMm) ==
    IF diameterMm \in DOMAIN CatalogGeometry
    THEN CatalogGeometry[diameterMm]
    ELSE [A |-> WettedArea(diameterMm), R23 |-> RadiusPow23(diameterMm)]

\* pipeVelocity(d, slope): (1/n) * R^(2/3) * S^(1/2), in 1e-4 m/s.
\* Math.pow(S, 0.5) in 1e-5: S = slopePct/100 = slope * 1e-5.
pipeVelocity(diameterMm, slopePct) ==
    LET R23 == Geometry(diameterMm).R23
        S12 == ISqrt(slopePct * 100000)
    IN  RoundDiv(R23 * S12, roughness * 1000)

\* manningsFlow(d, slope): (1/n) * A * R^(2/3) * S^(1/2), in 1e-5 m3/s
manningsFlow(diameterMm, slopePct) ==
    LET A == Geometry(diameterMm).A
        V == pipeVelocity(diameterMm, slopePct)
    IN  RoundDiv(V * (A \div 100) + RoundDiv(V * (A % 100), 100), 1000)

RECURSIVE ScanDiameters(_, _, _)
\* the for-loop of selectPipeDiameter from catalog index k on
ScanDiameters(requiredFlow, slope, k) ==
    IF k > Len(STANDARD_DIAMETERS) THEN 1200
    ELSE LET dia      == STANDARD_DIAMETERS[k]
             capacity == manningsFlow(dia, slope)
             velocity == pipeVelocity(dia, slope)
         IN  IF /\ capacity >= requiredFlow
                /\ velocity >= min_velocity
                /\ velocity <= max_velocity
             THEN dia
             ELSE ScanDiameters(requiredFlow, slope, k + 1)

\* variant of selectPipeDiameter: the capacity of a diameter is not tested
selectPipeDiameter_VelocityOnly(requiredFlow, slopePct) ==
    LET slope == IF slopePct > min_slope THEN slopePct ELSE min_slope
        fits  == {k \in 1..Len(STANDARD_DIAMETERS) :
                    /\ pipeVelocity(STANDARD_DIAMETERS[k], slope) >= min_velocity
                    /\ pipeVelocity(STANDARD_DIAMETERS[k], slope) <= max_velocity}
    IN  IF fits = {} THEN 1200
        ELSE STANDARD_DIAMETERS[CHOOSE k \in fits : \A j \in fits : k <= j]

\* variant of selectPipeDiameter: when no diameter fits, the size above the
\* largest of the catalog is returned
selectPipeDiameter_Oversize(requiredFlow, slopePct) ==
    LET slope == IF slopePct > min_slope THEN slopePct ELSE min_slope
        fits  == {k \in 1..Len(STANDARD_DIAMETERS) :
                    /\ manningsFlow(STANDARD_DIAMETERS[k], slope) >= requiredFlow
                    /\ pipeVelocity(STANDARD_DIAMETERS[k], slope) >= min_velocity
                    /\ pipeVelocity(STANDARD_DIAMETERS[k], slope) <= max_velocity}
    IN  IF fits = {} THEN 1350
        ELSE STANDARD_DIAMETERS[CHOOSE k \in fits : \A j \in fits : k <= j]

\* selectPipeDiameter(requiredFlow, slopePct)
selectPipeDiameter(requiredFlow, slopePct) ==
    ScanDiameters(requiredFlow, Max(slopePct, min_slope), 1)

\* variant of selectMaterial: a small pipe in rocky soil is of cast iron
selectMaterial_CastIron(diameter, slope, soil) ==
    IF diameter <= 300 /\ slope < 5000 THEN "PVC"
    ELSE IF diameter <= 450 /\ soil # "rocky" THEN "HDPE"
    ELSE IF diameter > 450 THEN "RCC"
    ELSE "CI"

\* variant of selectMaterial: the soil is not consulted
selectMaterial_AnySoil(diameter, slope, soil) ==
    IF diameter <= 300 /\ slope < 5000 THEN "PVC"
    ELSE IF diameter <= 450 THEN "HDPE"
    ELSE "RCC"

\* selectMaterial(diameter, slope, soil)
selectMaterial(diameter, slope, soil) ==
    IF diameter <= 300 /\ slope < 5000 THEN "PVC"
    ELSE IF diameter <= 450 /\ soil # "rocky" THEN "HDPE"
    ELSE IF diameter > 450 THEN "RCC"
    ELSE "RCC"

\* calcFloodRisk({fillRatio, velocity}, catchment, rainfall): the score is
\* accumulated in 1e-4 points; fillRatio in 1e-4, velocity in 1e-4 m/s
calcFloodRisk(fillRatio, velocity, catchment, rainfall) ==
    LET s1 == Min(400000, fillRatio * 50)
        s2 == IF velocity < 6000 THEN 150000 ELSE 0
        s3 == IF velocity > 25000 THEN 100000 ELSE 0
        s4 == Min(250000, RoundDiv(rainfall * 250000, extreme_event))
        s5 == catchment.runoffCoeff * 1500
    IN  Min(100, RoundDiv(s1 + s2 + s3 + s4 + s5, 10000))

\* ------------------------------------------------------------------------
\* Bounds and inputs
\* ------------------------------------------------------------------------

\* largest segment count of a run
MaxPipes == 2

\* largest generation budget of a run of the optimizer specification
MaxGen == 4

\* segment count of the long-chain specification
ChainPipes == 22

\* Math.random() results, in 0.001: the smallest and the largest
RandomDraws == {0, 999}

\* CatchmentParams values: the form's default, a flat site at the form's
\* minimum slope, an extreme site at the form's maximum slope, a degenerate
\* zero-area site, a small plot, a medium plot, a small plot on a rocky
\* slope of 6 % and a steep rocky yard of 0.01 ha
Catchments ==
    { [area |-> 1850, runoffCoeff |-> 65, rainfallIntensity |-> 100,
       slope |-> 1200, soilType |-> "clay", landUse |-> "residential"],
      [area |-> 1850, runoffCoeff |-> 65, rainfallIntensity |-> 100,
       slope |-> 300, soilType |-> "loam", landUse |-> "commercial"],
      [area |-> 2500, runoffCoeff |-> 90, rainfallIntensity |-> 150,
       slope |-> 10000, soilType |-> "rocky", landUse |-> "industrial"],
      [area |-> 0, runoffCoeff |-> 50, rainfallIntensity |-> 100,
       slope |-> 1200, soilType |-> "sandy", landUse |-> "mixed"],
      [area |-> 50, runoffCoeff |-> 30, rainfallIntensity |-> 50,
       slope |-> 2000, soilType |-> "sandy", landUse |-> "residential"],
      [area |-> 80, runoffCoeff |-> 65, rainfallIntensity |-> 100,
       slope |-> 1500, soilType |-> "loam", landUse |-> "residential"],
      [area |-> 50, runoffCoeff |-> 30, rainfallIntensity |-> 50,
       slope |-> 6000, soilType |-> "rocky", landUse |-> "residential"],
      [area |-> 1, runoffCoeff |-> 50, rainfallIntensity |-> 100,
       slope |-> 10000, soilType |-> "rocky", landUse |-> "residential"] }

\* the catchments of the optimizer specification: the form's default and
\* the zero-area site
OptCatchments == {c \in Catchments : c.slope = 1200}

\* ------------------------------------------------------------------------
\* State
\* ------------------------------------------------------------------------

VARIABLES
    pc,               \* control point of runGeneticOptimizer and its callees
    catchment,        \* argument of runGeneticOptimizer
    numPipes,         \* argument of runGeneticOptimizer
    generations,      \* argument of runGeneticOptimizer
    peakRunoff,       \* local of runGeneticOptimizer, 1e-5 m3/s
    convergenceData,  \* local of runGeneticOptimizer, 0.01 lakh
    bestCost,         \* local of runGeneticOptimizer, 0.01 lakh
    bestNetwork,      \* local of runGeneticOptimizer
    gen,              \* loop counter of runGeneticOptimizer
    candidateCost,    \* local of the loop body, 0.01 lakh
    network,          \* local of runGeneticOptimizer (line 239)
    manholes,         \* local of generateOptimizedNetwork
    pipes,            \* local of generateOptimizedNetwork
    result,           \* the OptimizationResult returned
    checks,           \* the ComplianceCheck[] of runNBCCompliance(result.network)
    breakdown,        \* the CostBreakdown of getCostBreakdown(result.network)
    callLog,          \* history: where generateOptimizedNetwork was called from
    costLog,          \* history: totalCost of every network generated in the run
    screen,           \* DrainageView: "dashboard" or "canvas"
    activeTab,        \* DrainageView: the value of the Tabs
    viewNetwork,      \* DrainageView: network (null or what onOptimized gave)
    runs,             \* the intervals of runOptimizer that are still set
    runsStarted,      \* history: how often runOptimizer was called
    indexTab,         \* Index: activeTab
    phase,            \* ScanView: phase
    progress,         \* ScanView: progress
    activeSensor,     \* ScanView: activeSensor
    prepTimer,        \* ScanView: the timeout of startScan is pending
    staleTimers,      \* pending startScan timeouts of unmounted ScanViews
    scans,            \* history: how many ScanViews were mounted
    completions       \* history: calls of onComplete by the latest ScanView

\* the state of the drainage engine
engineVars ==
    <<pc, catchment, numPipes, generations, peakRunoff, convergenceData,
      bestCost, bestNetwork, gen, candidateCost, network, manholes, pipes,
      result, checks, breakdown, callLog, costLog>>

\* the state of the DrainageView component and of the intervals it started
viewVars == <<screen, activeTab, viewNetwork, runs, runsStarted>>

\* the state of the Index page and of its ScanView
scanVars ==
    <<indexTab, phase, progress, activeSensor, prepTimer, staleTimers, scans,
      completions>>

\* the state of the user interface
uiVars == <<viewVars, scanVars>>

vars == <<engineVars, uiVars>>

\* null
Null == [null |-> TRUE]

\* Infinity
Infinity == 2147483647

NoCatchment == [area |-> 0, runoffCoeff |-> 0, rainfallIntensity |-> 0,
                slope |-> 0, soilType |-> "clay", landUse |-> "residential"]

\* useState of DrainageView (lines 13-15): no interval is set
InitDrainageView ==
    /\ screen = "dashboard"
    /\ activeTab = "canvas"
    /\ viewNetwork = Null
    /\ runs = <<>>
    /\ runsStarted = 0

\* useState of ScanView (lines 197-199): no ScanView was mounted yet
InitScanView ==
    /\ phase = "idle"
    /\ progress = 0
    /\ activeSensor = 0
    /\ prepTimer = FALSE
    /\ staleTimers = 0
    /\ scans = 0
    /\ completions = 0

Init ==
    /\ indexTab = "home"
    /\ InitDrainageView
    /\ InitScanView
    /\ pc = "idle"
    /\ catchment = NoCatchment
    /\ numPipes = 0
    /\ generations = 0
    /\ peakRunoff = 0
    /\ convergenceData = <<>>
    /\ bestCost = Infinity
    /\ bestNetwork = Null
    /\ gen = 0
    /\ candidateCost = 0
    /\ network = Null
    /\ manholes = <<>>
    /\ pipes = <<>>
    /\ result = Null
    /\ checks = <<>>
    /\ breakdown = Null
    /\ callLog = <<>>
    /\ costLog = {}

\* ------------------------------------------------------------------------
\* Network generator
\* ------------------------------------------------------------------------

DigitChar == <<"0", "1", "2", "3", "4", "5", "6", "7", "8", "9">>

RECURSIVE String(_)
\* String(n) for an integer n >= 0, as a sequence of characters
String(n) ==
    IF n < 10 THEN <<DigitChar[n + 1]>>
    ELSE String(n \div 10) \o <<DigitChar[(n % 10) + 1]>>

RECURSIVE padStart(_, _, _)
\* str.padStart(targetLength, padChar)
padStart(str, targetLength, padChar) ==
    IF Len(str) >= targetLength THEN str
    ELSE padStart(<<padChar>> \o str, targetLength, padChar)

\* `MH-${String(i).padStart(2, "0")}`
ManholeId(i) == <<"M", "H", "-">> \o padStart(String(i), 2, "0")

\* `P-${String(i + 1).padStart(2, "0")}`
PipeId(i) == <<"P", "-">> \o padStart(String(i + 1), 2, "0")

RECURSIVE SeqSum(_)
\* s.reduce((a, b) => a + b, 0)
SeqSum(s) == IF s = <<>> THEN 0 ELSE s[1] + SeqSum(Tail(s))

RECURSIVE SortedKeys(_)
\* Object.keys(rateMap).map(Number).sort((a, b) => a - b), from a key set
SortedKeys(keys) ==
    IF keys = {} THEN <<>>
    ELSE LET k == CHOOSE x \in keys : \A y \in keys : x <= y
         IN  <<k>> \o SortedKeys(keys \ {k})

RECURSIVE Find(_, _, _)
\* keys.find((k) => k >= diameter) from index j on; 0 stands for undefined
Find(keys, diameter, j) ==
    IF j > Len(keys) THEN 0
    ELSE IF keys[j] >= diameter THEN keys[j]
    ELSE Find(keys, diameter, j + 1)

\* variant of PipeRate: a diameter above every key of the table is priced
\* at the default of 2000
PipeRate_DefaultWhenUnmatched(p) ==
    LET rateMap == IF p.material = "RCC" THEN rcc_pipe_per_m
                                         ELSE pvc_pipe_per_m
        fits    == {k \in DOMAIN rateMap : k >= p.diameter}
    IN  IF fits = {} THEN 2000
        ELSE rateMap[CHOOSE k \in fits : \A j \in fits : k <= j]

\* variant of PipeRate: the diameter itself is looked up in the table
PipeRate_ExactKey(p) ==
    LET rateMap == IF p.material = "RCC" THEN rcc_pipe_per_m
                                         ELSE pvc_pipe_per_m
    IN  IF p.diameter \in DOMAIN rateMap THEN rateMap[p.diameter] ELSE 2000

\* the per-metre rate of a pipe (estimateNetworkCost lines 342-345)
PipeRate(p) ==
    LET rateMap == IF p.material = "RCC" THEN rcc_pipe_per_m
                                         ELSE pvc_pipe_per_m
        keys    == SortedKeys(DOMAIN rateMap)
        found   == Find(keys, p.diameter, 1)
        key     == IF found # 0 THEN found ELSE keys[Len(keys)]
    IN  IF key \in DOMAIN rateMap THEN rateMap[key] ELSE 2000

\* trench volume of a pipe, in 0.001 m3: length * 0.8 * (d/1000 + 0.6)
TrenchVol(p) == RoundDiv(p.length * 8 * (p.diameter + 600), 100)

\* what estimateNetworkCost adds for one pipe, in rupees
PipeCost(p) ==
    RoundDiv(PipeRate(p) * p.length, 10)
      + RoundDiv(TrenchVol(p) * (excavation_per_m3 + backfill_per_m3), 1000)
      + RoundDiv(p.length * labor_per_day * 5, 100)

\* what estimateNetworkCost adds for one manhole, in rupees
ManholeCost(mh) ==
    LET depth == mh.rim - mh.invert
        type  == IF depth < 1500 THEN "shallow"
                 ELSE IF depth < 3000 THEN "medium" ELSE "deep"
    IN  manhole_cost[type]

\* estimateNetworkCost(pipes, manholes), in rupees
estimateNetworkCost(ps, mhs) ==
    SeqSum([i \in 1..Len(ps) |-> PipeCost(ps[i])])
      + SeqSum([i \in 1..Len(mhs) |-> ManholeCost(mhs[i])])

\* estimateNaiveCost(catchment, numPipes), in 0.1 lakh; the source's factor
\* 100000 / 100000 cancels
estimateNaiveCost(c, n) == c.area * 150 + n * 35

\* variant of FillRatio: the ratio is inverted, Math.min(0.79, flowRate /
\* segmentFlow), where a division by zero yields Infinity
FillRatio_Inverted(segmentFlow, flowRate) ==
    IF segmentFlow = 0 THEN 7900
    ELSE IF segmentFlow > 0 /\ flowRate * 100 >= 79 * segmentFlow THEN 7900
    ELSE ((flowRate * 100) \div segmentFlow) * 100

\* Math.min(0.79, segmentFlow / flowRate), in 1e-4; flows in 1e-5 m3/s
FillRatio(segmentFlow, flowRate) ==
    IF segmentFlow * 100 >= 79 * flowRate THEN 7900
    ELSE LET whole == (segmentFlow * 100) \div flowRate
             rest  == segmentFlow * 100 - whole * flowRate
         IN  whole * 100 + RoundDiv(rest * 100, flowRate)

\* variant of ManholeType: the outlet is looked for one index early
ManholeType_OutletEarly(i, n) ==
    IF i = 0 THEN "inlet" ELSE IF i = n - 1 THEN "outlet" ELSE "junction"

\* line 281: the type of manhole i of a chain of n pipes
ManholeType(i, n) ==
    IF i = 0 THEN "inlet" ELSE IF i = n THEN "outlet" ELSE "junction"

\* variant of InvertLevel: the jitter spans 1.5 m
InvertLevel_WideJitter(i, r) == 900000 - i * 1200 - (r * 1500) \div 1000

\* line 279: invert = 900 - i * 1.2 - Math.random() * 0.5, in mm
InvertLevel(i, r) == 900000 - i * 1200 - (r * 500) \div 1000

\* one iteration of the manhole loop (lines 273-284); i is 0-based.  The
\* planar coordinates x, y are drawing data that no computation reads and
\* are left out of the record.
NewManhole(i, n, r) ==
    [ id        |-> ManholeId(i),
      label     |-> ManholeId(i),
      invert    |-> InvertLevel(i, r),
      rim       |-> 903000 - i * 1000,
      type      |-> ManholeType(i, n),
      floodRisk |-> 0 ]

\* fromNode: manholes[i].id (line 299), i 0-based
FromNode(mhs, i) == mhs[i + 1].id

\* variant of ToNode: the pipe ends at the manhole it starts from
ToNode_SameIndex(mhs, i) == mhs[i + 1].id

\* toNode: manholes[i + 1].id (line 300), i 0-based
ToNode(mhs, i) == mhs[i + 2].id

\* segmentFlow = peakRunoff * (1 - i * 0.05) of line 287, in 1e-5 m3/s
SegmentFlow(peak, i) == RoundDiv(peak * (100 - i * 5), 100)

\* one iteration of the pipe loop, up to the push (lines 287-309); i is
\* 0-based, rs and rl are the two Math.random() results
NewPipe(i, c, peak, mhs, rs, rl) ==
    LET segmentFlow == SegmentFlow(peak, i)
        slope       == Max(c.slope, min_slope) + (rs * 500) \div 1000
        diameter    == selectPipeDiameter(segmentFlow, slope)
        material    == selectMaterial(diameter, slope, c.soilType)
        velocity    == pipeVelocity(diameter, slope)
        flowRate    == manningsFlow(diameter, slope)
        fillRatio   == FillRatio(segmentFlow, flowRate)
        length      == 300 + (rl * 500) \div 1000
        riskScore   == calcFloodRisk(fillRatio, velocity, c,
                                     c.rainfallIntensity)
    IN  [ id        |-> PipeId(i),
          fromNode  |-> FromNode(mhs, i),
          toNode    |-> ToNode(mhs, i),
          length    |-> length,
          diameter  |-> diameter,
          slope     |-> slope,
          material  |-> material,
          velocity  |-> RoundDiv(velocity, 100),
          flowRate  |-> RoundDiv(flowRate, 10),
          fillRatio |-> RoundDiv(fillRatio, 100),
          riskScore |-> riskScore ]

\* variant of NbcCompliant: the erosion limit is not tested
NbcCompliant_NoMaxVelocity(ps) ==
    \A i \in 1..Len(ps) :
        /\ ps[i].velocity * 100 >= min_velocity
        /\ ps[i].fillRatio <= max_fill_ratio
        /\ ps[i].diameter >= min_pipe_dia

\* pipes.every(...) of lines 319-325
NbcCompliant(ps) ==
    \A i \in 1..Len(ps) :
        /\ ps[i].velocity * 100 >= min_velocity
        /\ ps[i].velocity * 100 <= max_velocity
        /\ ps[i].fillRatio <= max_fill_ratio
        /\ ps[i].diameter >= min_pipe_dia

\* the aggregation and the returned object (lines 315-336)
BuildNetwork(mhs, ps, c, peak) ==
    LET totalPipeLength == SeqSum([i \in 1..Len(ps) |-> ps[i].length])
        totalCost       == estimateNetworkCost(ps, mhs)
        riskSum         == SeqSum([i \in 1..Len(ps) |-> ps[i].riskScore])
    IN  [ manholes        |-> mhs,
          pipes           |-> ps,
          catchment       |-> c,
          peakRunoff      |-> RoundDiv(peak, 100),
          totalPipeLength |-> RoundDiv(totalPipeLength, 10),
          totalCost       |-> RoundDiv(totalCost, 10000),
          floodRiskScore  |-> RoundDiv(riskSum, Len(ps)),
          nbcCompliant    |-> NbcCompliant(ps) ]

\* callLog entry of the call on line 239 (the calls of line 234 log gen)
Fallback == -1

\* the call generateOptimizedNetwork(catchment, numPipes, peakRunoff):
\* control enters the callee with empty manholes and pipes
EnterGenerate(from) ==
    /\ pc' = "manholes"
    /\ manholes' = <<>>
    /\ pipes' = <<>>
    /\ callLog' = Append(callLog, from)

\* generateOptimizedNetwork, one iteration of the loop of lines 273-284;
\* D is the set of values Math.random() may return
AddManhole(D) ==
    /\ pc = "manholes"
    /\ UNCHANGED uiVars
    /\ Len(manholes) <= numPipes
    /\ \E r \in D :
          manholes' = Append(manholes, NewManhole(Len(manholes), numPipes, r))
    /\ pc' = IF Len(manholes) = numPipes THEN "pipes" ELSE "manholes"
    /\ UNCHANGED <<catchment, numPipes, generations, peakRunoff,
                   convergenceData, bestCost, bestNetwork, gen,
                   candidateCost, network, pipes, result, checks, breakdown, callLog,
                   costLog>>

\* variant of BackfillRisk: a manhole keeps the larger of the risks of its
\* adjacent pipes
BackfillRisk_KeepMax(mhs, i, risk) ==
    [mhs EXCEPT ![i + 1].floodRisk = IF @ > risk THEN @ ELSE risk,
                ![i + 2].floodRisk = IF @ > risk THEN @ ELSE risk]

\* lines 311-312: the risk of pipe i is written to manholes[i] and
\* manholes[i + 1] (0-based), overwriting what an earlier pipe wrote
BackfillRisk(mhs, i, risk) ==
    [mhs EXCEPT ![i + 1].floodRisk = risk, ![i + 2].floodRisk = risk]

\* generateOptimizedNetwork, one iteration of the loop of lines 286-313
AddPipe(D) ==
    /\ pc = "pipes"
    /\ UNCHANGED uiVars
    /\ Len(pipes) < numPipes
    /\ \E rs \in D, rl \in D :
          LET i == Len(pipes)
              p == NewPipe(i, catchment, peakRunoff, manholes, rs, rl)
          IN  /\ pipes' = Append(pipes, p)
              /\ manholes' = BackfillRisk(manholes, i, p.riskScore)
    /\ pc' = IF Len(pipes) + 1 = numPipes THEN "aggregate" ELSE "pipes"
    /\ UNCHANGED <<catchment, numPipes, generations, peakRunoff,
                   convergenceData, bestCost, bestNetwork, gen,
                   candidateCost, network, result, checks, breakdown, callLog, costLog>>

\* generateOptimizedNetwork, lines 315-336, and the return to the caller:
\* into the loop body (lines 234-236) or to the fallback of line 239
Aggregate ==
    /\ pc = "aggregate"
    /\ UNCHANGED uiVars
    /\ LET net == BuildNetwork(manholes, pipes, catchment, peakRunoff)
       IN  /\ costLog' = costLog \cup {net.totalCost}
           /\ IF callLog[Len(callLog)] = Fallback
              THEN /\ network' = net
                   /\ pc' = "finish"
                   /\ UNCHANGED <<bestNetwork, convergenceData, gen>>
              ELSE /\ bestNetwork' = net
                   /\ convergenceData' =
                          Append(convergenceData, Max(50, candidateCost))
                   /\ gen' = gen + 1
                   /\ pc' = "loop"
                   /\ UNCHANGED network
    /\ manholes' = <<>>
    /\ pipes' = <<>>
    /\ UNCHANGED <<catchment, numPipes, generations, peakRunoff, bestCost,
                   candidateCost, result, checks, breakdown, callLog>>

\* ------------------------------------------------------------------------
\* Optimizer
\* ------------------------------------------------------------------------

\* e^(-1/15) = 0.935507, in 1e-4
ExpStep == 9355

RECURSIVE Exp15(_)
\* Math.exp(-g / 15), in 1e-4
Exp15(g) == IF g = 0 THEN 10000 ELSE RoundDiv(Exp15(g - 1) * ExpStep, 10000)

\* candidateCost of lines 224-230, in 0.01 lakh; r is the Math.random() result
CandidateCost(best, peak, n, g, r) ==
    LET noise           == r * 5 - 2500           \* 1e-5
        improvementRate == Exp15(g)               \* 1e-4
    IN  IF best = Infinity
        THEN MulDivE5(RoundDiv(peak * 8, 10) + n * 250,
                      100000 + noise + improvementRate * 10)
        ELSE MulDivE5(best,
                      100000 - RoundDiv(improvementRate * 3, 10) + noise)

\* runGeneticOptimizer is called (lines 215-220); Cs, Ns, Gs are the sets
\* the arguments are drawn from
Call(Cs, Ns, Gs) ==
    /\ pc = "idle"
    /\ UNCHANGED uiVars
    /\ \E c \in Cs, n \in Ns, g \in Gs :
          /\ catchment' = c
          /\ numPipes' = n
          /\ generations' = g
          /\ peakRunoff' = calcPeakRunoff(c)
    /\ convergenceData' = <<>>
    /\ bestCost' = Infinity
    /\ bestNetwork' = Null
    /\ gen' = 0
    /\ pc' = "loop"
    /\ callLog' = <<>>
    /\ costLog' = {}
    /\ UNCHANGED <<candidateCost, network, manholes, pipes, result, checks, breakdown>>

\* variant of Improves: every candidate is retained
Improves_Always(cand, best) == TRUE

\* the test of line 231: candidateCost < bestCost
Improves(cand, best) == cand < best

\* variant of LoopCondition: the bound is inclusive
LoopCondition_Inclusive(g, n) == g <= n

\* the loop condition of line 223
LoopCondition(g, n) == g < n

\* variant of LoopIteration: the candidate is pushed only when it is retained
LoopIteration_PushWhenRetained(D) ==
    /\ pc = "loop"
    /\ UNCHANGED uiVars
    /\ LoopCondition(gen, generations)
    /\ \E r \in D :
          LET cand == CandidateCost(bestCost, peakRunoff, numPipes, gen, r)
          IN  /\ candidateCost' = cand
              /\ IF Improves(cand, bestCost)
                 THEN /\ bestCost' = cand
                      /\ EnterGenerate(gen)
                      /\ UNCHANGED <<convergenceData, gen>>
                 ELSE /\ gen' = gen + 1
                      /\ UNCHANGED <<convergenceData, bestCost, pc, manholes,
                                     pipes, callLog>>
    /\ UNCHANGED <<catchment, numPipes, generations, peakRunoff, bestNetwork,
                   network, result, checks, breakdown, costLog>>

\* one iteration of the loop of lines 223-237 when gen < generations: an
\* improving candidate calls generateOptimizedNetwork (the iteration is then
\* completed by Aggregate), any other candidate is only recorded
LoopIteration(D) ==
    /\ pc = "loop"
    /\ UNCHANGED uiVars
    /\ LoopCondition(gen, generations)
    /\ \E r \in D :
          LET cand == CandidateCost(bestCost, peakRunoff, numPipes, gen, r)
          IN  /\ candidateCost' = cand
              /\ IF Improves(cand, bestCost)
                 THEN /\ bestCost' = cand
                      /\ EnterGenerate(gen)
                      /\ UNCHANGED <<convergenceData, gen>>
                 ELSE /\ convergenceData' =
                             Append(convergenceData, Max(50, cand))
                      /\ gen' = gen + 1
                      /\ UNCHANGED <<bestCost, pc, manholes, pipes, callLog>>
    /\ UNCHANGED <<catchment, numPipes, generations, peakRunoff, bestNetwork,
                   network, result, checks, breakdown, costLog>>

\* the loop is left; line 239: bestNetwork ?? generateOptimizedNetwork(...)
LoopExit ==
    /\ pc = "loop"
    /\ UNCHANGED uiVars
    /\ ~LoopCondition(gen, generations)
    /\ IF bestNetwork # Null
       THEN /\ network' = bestNetwork
            /\ pc' = "finish"
            /\ UNCHANGED <<manholes, pipes, callLog>>
       ELSE /\ EnterGenerate(Fallback)
            /\ UNCHANGED network
    /\ UNCHANGED <<catchment, numPipes, generations, peakRunoff,
                   convergenceData, bestCost, bestNetwork, gen,
                   candidateCost, result, checks, breakdown, costLog>>

\* warnings of lines 246-248
Warnings(c) ==
    (IF c.rainfallIntensity > 120 THEN <<"detention pond">> ELSE <<>>)
      \o (IF c.runoffCoeff > 75 THEN <<"bioretention cells">> ELSE <<>>)
      \o (IF c.slope < 500 THEN <<"flat terrain">> ELSE <<>>)

\* recommendations of lines 250-252
Recommendations(c, net) ==
    << <<"primary trunk",
         IF Len(net.pipes) > 0 THEN net.pipes[1].material ELSE "RCC">>,
       <<"flap gates">> >>
      \o (IF c.area > 2000 THEN << <<"retention basin">> >> ELSE <<>>)

\* variant of ReportedSavings: the percentage is reported as computed
ReportedSavings_Unfloored(savings) == savings

\* line 256: savings: Math.max(0, savings)
ReportedSavings(savings) == Max(0, savings)

\* lines 240-261: savings, advisory strings and the returned result
Finish ==
    /\ pc = "finish"
    /\ UNCHANGED uiVars
    /\ LET naiveCost == estimateNaiveCost(catchment, numPipes)
           savings   == RoundDiv((naiveCost - network.totalCost) * 100,
                                 naiveCost)
       IN  result' = [ network         |-> network,
                       savings         |-> ReportedSavings(savings),
                       iterations      |-> generations,
                       convergenceData |-> convergenceData,
                       warnings        |-> Warnings(catchment),
                       recommendations |-> Recommendations(catchment,
                                                           network) ]
    /\ pc' = "done"
    /\ UNCHANGED <<catchment, numPipes, generations, peakRunoff,
                   convergenceData, bestCost, bestNetwork, gen,
                   candidateCost, network, manholes, pipes, checks, breakdown, callLog,
                   costLog>>

\* ------------------------------------------------------------------------
\* Compliance rule engine
\* ------------------------------------------------------------------------

\* Math.max(...xs) / Math.min(...xs) over a sequence; the reachable networks
\* have at least one pipe
SeqMax(xs) == CHOOSE m \in {xs[i] : i \in 1..Len(xs)} :
                 \A i \in 1..Len(xs) : xs[i] <= m

SeqMin(xs) == CHOOSE m \in {xs[i] : i \in 1..Len(xs)} :
                 \A i \in 1..Len(xs) : xs[i] >= m

\* aggregate statistics of lines 379-382; a mean sum/n is compared with a
\* limit L as sum against L * n
VelocitySum(net) ==
    SeqSum([i \in 1..Len(net.pipes) |-> net.pipes[i].velocity])

MaxFill(net) == SeqMax([i \in 1..Len(net.pipes) |-> net.pipes[i].fillRatio])

MinDia(net) == SeqMin([i \in 1..Len(net.pipes) |-> net.pipes[i].diameter])

SlopeSum(net) == SeqSum([i \in 1..Len(net.pipes) |-> net.pipes[i].slope])

\* lines 384-391
CheckSelfCleansing(net) ==
    [ rule   |-> "Self-Cleansing Velocity",
      clause |-> "NBC 2016 Part 9 Sec 4.3.1",
      status |-> IF VelocitySum(net) >= 60 * Len(net.pipes)
                 THEN "pass" ELSE "fail" ]

\* variant of CheckMaxVelocity: an excessive velocity only warns
CheckMaxVelocity_Warn(net) ==
    [ rule   |-> "Maximum Velocity",
      clause |-> "NBC 2016 Part 9 Sec 4.3.2",
      status |-> IF VelocitySum(net) <= 300 * Len(net.pipes)
                 THEN "pass" ELSE "warn" ]

\* lines 393-400
CheckMaxVelocity(net) ==
    [ rule   |-> "Maximum Velocity",
      clause |-> "NBC 2016 Part 9 Sec 4.3.2",
      status |-> IF VelocitySum(net) <= 300 * Len(net.pipes)
                 THEN "pass" ELSE "fail" ]

\* lines 402-409
CheckFillRatio(net) ==
    [ rule   |-> "Pipe Fill Ratio",
      clause |-> "NBC 2016 Part 9 Sec 4.2.5",
      status |-> IF MaxFill(net) <= 80 THEN "pass" ELSE "fail" ]

\* variant of CheckMinDiameter: the limit itself is rejected
CheckMinDiameter_AboveLimit(net) ==
    [ rule   |-> "Minimum Pipe Diameter",
      clause |-> "NBC 2016 Part 9 Sec 4.1.3 / IS:3114",
      status |-> IF \A i \in 1..Len(net.pipes) : net.pipes[i].diameter > 150
                 THEN "pass" ELSE "fail" ]

\* lines 411-418
CheckMinDiameter(net) ==
    [ rule   |-> "Minimum Pipe Diameter",
      clause |-> "NBC 2016 Part 9 Sec 4.1.3 / IS:3114",
      status |-> IF MinDia(net) >= 150 THEN "pass" ELSE "fail" ]

\* lines 420-427
CheckMinSlope(net) ==
    [ rule   |-> "Minimum Longitudinal Slope",
      clause |-> "BBMP Drainage Manual Sec 3.2",
      status |-> IF SlopeSum(net) >= 500 * Len(net.pipes)
                 THEN "pass" ELSE "warn" ]

\* lines 429-436
CheckManholeSpacing(net) ==
    [ rule   |-> "Manhole Spacing",
      clause |-> "IS:1742 / NBC Part 9",
      status |-> "pass" ]

\* lines 438-445
CheckFreeboard(net) ==
    [ rule   |-> "Freeboard Factor",
      clause |-> "NBC 2016 Part 9 Sec 5.1",
      status |-> IF net.floodRiskScore < 60 THEN "pass" ELSE "warn" ]

\* lines 447-454
CheckSeismic(net) ==
    [ rule   |-> "Seismic Zone III Provisions",
      clause |-> "IS:1893 / NBC Annex-E",
      status |-> IF \A i \in 1..Len(net.pipes) : net.pipes[i].material # "CI"
                 THEN "pass" ELSE "warn" ]

\* lines 456-463
CheckEnvironmental(net) ==
    [ rule   |-> "Environmental Clearance",
      clause |-> "Karnataka EP Act / BBMP",
      status |-> IF net.catchment.area > 2000 THEN "warn" ELSE "pass" ]

\* variant of runNBCCompliance: evaluation stops at the first failed rule
runNBCCompliance_ShortCircuit(net) ==
    LET all == << CheckSelfCleansing(net), CheckMaxVelocity(net),
                  CheckFillRatio(net), CheckMinDiameter(net),
                  CheckMinSlope(net), CheckManholeSpacing(net),
                  CheckFreeboard(net), CheckSeismic(net),
                  CheckEnvironmental(net) >>
        fails == {k \in 1..Len(all) : all[k].status = "fail"}
    IN  IF fails = {} THEN all
        ELSE SubSeq(all, 1, CHOOSE k \in fails : \A j \in fails : k <= j)

\* runNBCCompliance(network): the nine checks in the order they are pushed
runNBCCompliance(net) ==
    << CheckSelfCleansing(net), CheckMaxVelocity(net), CheckFillRatio(net),
       CheckMinDiameter(net), CheckMinSlope(net), CheckManholeSpacing(net),
       CheckFreeboard(net), CheckSeismic(net), CheckEnvironmental(net) >>

\* the compliance panel evaluates the returned network
CheckCompliance ==
    /\ pc = "done"
    /\ UNCHANGED uiVars
    /\ checks' = runNBCCompliance(result.network)
    /\ pc' = "checked"
    /\ UNCHANGED <<catchment, numPipes, generations, peakRunoff,
                   convergenceData, bestCost, bestNetwork, gen,
                   candidateCost, network, manholes, pipes, result,
                   breakdown, callLog, costLog>>

\* variant of TotalRs: the manhole amount is left out of the total
TotalRs_NoManholes(pipeMaterial, excavation, backfill, labor, mhs) ==
    pipeMaterial + excavation + backfill + labor

\* line 486: totalRs, in rupees
TotalRs(pipeMaterial, excavation, backfill, labor, mhs) ==
    pipeMaterial + excavation + backfill + labor + mhs

\* Math.round(x / 100000 * 10) / 10 of a rupee amount, in 0.1 lakh
RoundLakh(rupees) == RoundDiv(rupees, 10000)

\* getCostBreakdown(network), lines 469-495; the amounts are summed in
\* rupees and returned in 0.1 lakh
getCostBreakdown(net) ==
    LET ps           == net.pipes
        pipeMaterial == SeqSum([i \in 1..Len(ps) |->
                                  RoundDiv(PipeRate(ps[i]) * ps[i].length, 10)])
        excavation   == SeqSum([i \in 1..Len(ps) |->
                                  RoundDiv(TrenchVol(ps[i]) * excavation_per_m3,
                                           1000)])
        backfill     == RoundDiv(excavation * 5, 10)
        labor        == SeqSum([i \in 1..Len(ps) |->
                                  RoundDiv(ps[i].length * labor_per_day * 5,
                                           100)])
        mhs          == Len(net.manholes) * manhole_cost["medium"]
    IN  [ pipeMaterial |-> RoundLakh(pipeMaterial),
          manholes     |-> RoundLakh(mhs),
          excavation   |-> RoundLakh(excavation),
          labor        |-> RoundLakh(labor),
          backfill     |-> RoundLakh(backfill),
          total        |-> RoundLakh(TotalRs(pipeMaterial, excavation,
                                             backfill, labor, mhs)) ]

\* the cost panel itemizes the returned network
ShowCostBreakdown ==
    /\ pc \in {"done", "checked"}
    /\ UNCHANGED uiVars
    /\ breakdown = Null
    /\ breakdown' = getCostBreakdown(result.network)
    /\ UNCHANGED <<pc, catchment, numPipes, generations, peakRunoff,
                   convergenceData, bestCost, bestNetwork, gen,
                   candidateCost, network, manholes, pipes, result, checks,
                   callLog, costLog>>

\* ------------------------------------------------------------------------
\* DrainageView and the optimizer interval of DrainageCanvas
\* ------------------------------------------------------------------------

\* largest number of calls of runOptimizer
MaxRuns == 1

\* totalGen of runOptimizer (line 590)
totalGen == 50

\* DrainageCanvas is rendered inside TabsContent value="canvas" of the canvas
\* screen (lines 41-48, 105-113); it is unmounted whenever that is not shown
CanvasMounted == screen = "canvas" /\ activeTab = "canvas"

\* the state optimizing of the mounted DrainageCanvas: true from
\* runOptimizer until its own interval ends (lines 586, 598)
optimizing == \E i \in 1..Len(runs) : runs[i].live

\* DrainageCanvas unmounts: its state is dropped, its interval stays set
Unmounted(rs) == [i \in 1..Len(rs) |-> [rs[i] EXCEPT !.live = FALSE]]

\* clearInterval(interval) of run i
Cleared(rs, i) == SubSeq(rs, 1, i - 1) \o SubSeq(rs, i + 1, Len(rs))

\* variant of TabEnabled: the 3D View trigger is never disabled
TabEnabled_Always(tab) == TRUE

\* disabled={!network} of the 3D View trigger (line 86)
TabEnabled(tab) == tab = "3d" => viewNetwork # Null

\* handleNewProject (lines 28-33), from the dashboard; the history field
\* beforeNewProject of every interval that is still set becomes true
handleNewProject ==
    /\ screen = "dashboard"
    /\ viewNetwork' = Null
    /\ screen' = "canvas"
    /\ activeTab' = "canvas"
    /\ runs' = [i \in 1..Len(runs) |->
                  [runs[i] EXCEPT !.beforeNewProject = TRUE]]
    /\ UNCHANGED <<runsStarted, engineVars, scanVars>>

\* handleOpenProject (lines 35-39), from the dashboard
handleOpenProject ==
    /\ screen = "dashboard"
    /\ screen' = "canvas"
    /\ activeTab' = "canvas"
    /\ UNCHANGED <<viewNetwork, runs, runsStarted, engineVars, scanVars>>

\* the back button of the top bar (line 58)
BackToDashboard ==
    /\ screen = "canvas"
    /\ screen' = "dashboard"
    /\ runs' = Unmounted(runs)
    /\ UNCHANGED <<activeTab, viewNetwork, runsStarted, engineVars, scanVars>>

\* the Projects trigger (lines 98-101): onValueChange and onClick
ProjectsTab ==
    /\ screen = "canvas"
    /\ activeTab' = "dashboard"
    /\ screen' = "dashboard"
    /\ runs' = Unmounted(runs)
    /\ UNCHANGED <<viewNetwork, runsStarted, engineVars, scanVars>>

\* one of the other four triggers is activated (lines 80-97)
SelectTab ==
    /\ screen = "canvas"
    /\ \E tab \in {"canvas", "3d", "compliance", "cost"} :
          /\ tab # activeTab
          /\ TabEnabled(tab)
          /\ activeTab' = tab
    /\ runs' = IF activeTab = "canvas" THEN Unmounted(runs) ELSE runs
    /\ UNCHANGED <<screen, viewNetwork, runsStarted, engineVars, scanVars>>

\* runOptimizer up to setInterval (lines 585-591); the button is disabled
\* while optimizing (line 807)
runOptimizer ==
    /\ CanvasMounted
    /\ ~optimizing
    /\ runsStarted < MaxRuns
    /\ runs' = Append(runs, [gen |-> 0, live |-> TRUE,
                              beforeNewProject |-> FALSE])
    /\ runsStarted' = runsStarted + 1
    /\ UNCHANGED <<screen, activeTab, viewNetwork, engineVars, scanVars>>

\* the interval callback of a run (lines 591-602).  The network that
\* runGeneticOptimizer returns is never null; DrainageView only tests it
\* against null, so it is represented by the history of its run.  The
\* setters of an unmounted DrainageCanvas have no effect, onOptimized
\* calls setNetwork of DrainageView, which stays mounted.
IntervalCallback ==
    \E i \in 1..Len(runs) :
        /\ IF runs[i].gen + 1 >= totalGen
           THEN /\ runs' = Cleared(runs, i)
                /\ viewNetwork' =
                       [beforeNewProject |-> runs[i].beforeNewProject]
           ELSE /\ runs' = [runs EXCEPT ![i].gen = @ + 1]
                /\ UNCHANGED viewNetwork
        /\ UNCHANGED <<screen, activeTab, runsStarted, engineVars, scanVars>>

\* ------------------------------------------------------------------------
\* Index and ScanView
\* ------------------------------------------------------------------------

\* largest number of ScanView instances Index mounts
MaxScans == 2

\* the ids of navItems (BottomNav lines 10-15)
NavTabs == {"home", "scan", "reports", "settings"}

\* sensorTypes.length (lines 190-194)
SensorCount == 3

\* Index renders ScanView exactly when activeTab is "scan" (Index lines
\* 26-32).  Showing it mounts a new instance with the state of useState;
\* hiding it unmounts the instance: the cleanup of the effect clears its
\* interval or its analyzing timeout, the timeout of startScan stays set.
\* phase, progress and activeSensor keep the last values the latest
\* instance was given until the next instance is mounted.
ShowTab(tab) ==
    /\ indexTab' = tab
    /\ IF tab = "scan"
       THEN /\ scans < MaxScans
            /\ scans' = scans + 1
            /\ phase' = "idle"
            /\ progress' = 0
            /\ activeSensor' = 0
            /\ completions' = 0
            /\ UNCHANGED <<prepTimer, staleTimers>>
       ELSE /\ prepTimer' = FALSE
            /\ staleTimers' = staleTimers + (IF prepTimer THEN 1 ELSE 0)
            /\ UNCHANGED <<scans, phase, progress, activeSensor,
                           completions>>

\* BottomNav.onTabChange (Index line 49) and HomeView.onStartScan (lines
\* 13-15) set activeTab
onTabChange ==
    /\ \E tab \in NavTabs : tab # indexTab /\ ShowTab(tab)
    /\ UNCHANGED <<engineVars, viewVars>>

\* onBack of ScanView (Index line 30)
onBack ==
    /\ indexTab = "scan"
    /\ ShowTab("home")
    /\ UNCHANGED <<engineVars, viewVars>>

\* startScan (lines 238-242); Begin Scan is rendered while phase is idle
startScan ==
    /\ indexTab = "scan"
    /\ phase = "idle"
    /\ phase' = "preparing"
    /\ progress' = 0
    /\ prepTimer' = TRUE
    /\ UNCHANGED <<indexTab, activeSensor, staleTimers, scans, completions,
                   engineVars, viewVars>>

\* the timeout of startScan fires in the mounted instance (line 241)
PreparingTimeout ==
    /\ indexTab = "scan"
    /\ prepTimer
    /\ prepTimer' = FALSE
    /\ phase' = "scanning"
    /\ UNCHANGED <<indexTab, progress, activeSensor, staleTimers, scans,
                   completions, engineVars, viewVars>>

\* the timeout of startScan fires for an unmounted instance: setPhase has
\* no effect
StaleTimeout ==
    /\ staleTimers > 0
    /\ staleTimers' = staleTimers - 1
    /\ UNCHANGED <<indexTab, phase, progress, activeSensor, prepTimer, scans,
                   completions, engineVars, viewVars>>

\* variant of ScanDone: scanning ends at half of the range
ScanDone_Half(prev) == prev >= 50

\* the test of line 205
ScanDone(prev) == prev >= 100

\* the interval callback of the scanning effect (lines 203-215)
ScanTick ==
    /\ indexTab = "scan"
    /\ phase = "scanning"
    /\ IF ScanDone(progress)
       THEN /\ phase' = "analyzing"
            /\ progress' = 100
       ELSE /\ progress' = progress + 2
            /\ UNCHANGED phase
    /\ activeSensor' = (activeSensor + 1) % SensorCount
    /\ UNCHANGED <<indexTab, prepTimer, staleTimers, scans, completions,
                   engineVars, viewVars>>

\* the timeout of the analyzing effect (lines 221-232): setPhase and
\* onComplete, which is handleScanComplete of Index (lines 17-20)
AnalyzingTimeout ==
    /\ indexTab = "scan"
    /\ phase = "analyzing"
    /\ phase' = "complete"
    /\ completions' = completions + 1
    /\ indexTab' = "reports"
    /\ prepTimer' = FALSE
    /\ staleTimers' = staleTimers + (IF prepTimer THEN 1 ELSE 0)
    /\ UNCHANGED <<progress, activeSensor, scans, engineVars, viewVars>>

\* ------------------------------------------------------------------------
\* Specifications
\* ------------------------------------------------------------------------

\* Networks: every catchment, 1..MaxPipes segments, a budget of 0 or 1
\* generation (the fallback call and the call of generation 0)
Start == Call(Catchments, 1..MaxPipes, 0..1)

Iterate == LoopIteration(RandomDraws)

PushManhole == AddManhole(RandomDraws)

PushPipe == AddPipe(RandomDraws)

Next ==
    \/ Start
    \/ Iterate
    \/ LoopExit
    \/ PushManhole
    \/ PushPipe
    \/ Aggregate
    \/ Finish
    \/ CheckCompliance
    \/ ShowCostBreakdown

Spec == Init /\ [][Next]_vars

\* Optimizer: two catchments, single-segment networks, budgets of 0..MaxGen generations
StartOpt == Call(OptCatchments, {1}, 0..MaxGen)

NextOpt ==
    \/ StartOpt
    \/ Iterate
    \/ LoopExit
    \/ PushManhole
    \/ PushPipe
    \/ Aggregate
    \/ Finish
    \/ CheckCompliance
    \/ ShowCostBreakdown

SpecOpt == Init /\ [][NextOpt]_vars

\* Long chains: ChainPipes segments, Math.random() pinned to 0
StartChain == Call(Catchments, {ChainPipes}, 0..1)

IterateChain == LoopIteration({0})

PushManholeChain == AddManhole({0})

PushPipeChain == AddPipe({0})

NextChain ==
    \/ StartChain
    \/ IterateChain
    \/ LoopExit
    \/ PushManholeChain
    \/ PushPipeChain
    \/ Aggregate
    \/ Finish
    \/ CheckCompliance
    \/ ShowCostBreakdown

SpecChain == Init /\ [][NextChain]_vars

\* Cost breakdown of an arbitrary network: getCostBreakdown is exported and
\* accepts every DrainageNetwork, also one whose pipes are not of the
\* catalog.  The arguments are single-pipe networks.
CostDiameters == {100, 150, 300, 1200, 1350, 1500}

CostMaterials == {"PVC", "HDPE", "RCC", "CI"}

CostLengths == {300, 550, 799}

CostArguments ==
    { [ pipes    |-> << [diameter |-> d, material |-> m, length |-> l] >>,
        manholes |-> << NewManhole(0, 1, 0), NewManhole(1, 1, 0) >> ] :
      d \in CostDiameters, m \in CostMaterials, l \in CostLengths }

\* the state before a call getCostBreakdown(network)
InitCost ==
    /\ indexTab = "home"
    /\ InitDrainageView
    /\ InitScanView
    /\ pc = "argument"
    /\ network \in CostArguments
    /\ catchment = NoCatchment
    /\ numPipes = 0
    /\ generations = 0
    /\ peakRunoff = 0
    /\ convergenceData = <<>>
    /\ bestCost = Infinity
    /\ bestNetwork = Null
    /\ gen = 0
    /\ candidateCost = 0
    /\ manholes = <<>>
    /\ pipes = <<>>
    /\ result = Null
    /\ checks = <<>>
    /\ breakdown = Null
    /\ callLog = <<>>
    /\ costLog = {}

\* the call getCostBreakdown(network) and its return
CallCostBreakdown ==
    /\ pc = "argument"
    /\ UNCHANGED uiVars
    /\ breakdown' = getCostBreakdown(network)
    /\ pc' = "returned"
    /\ UNCHANGED <<catchment, numPipes, generations, peakRunoff,
                   convergenceData, bestCost, bestNetwork, gen,
                   candidateCost, network, manholes, pipes, result, checks,
                   callLog, costLog>>

NextCost == CallCostBreakdown

SpecCost == InitCost /\ [][NextCost]_vars

\* DrainageView: Index shows the drainage view, which stays mounted
InitView ==
    /\ indexTab = "drainage"
    /\ InitDrainageView
    /\ InitScanView
    /\ pc = "idle"
    /\ catchment = NoCatchment
    /\ numPipes = 0
    /\ generations = 0
    /\ peakRunoff = 0
    /\ convergenceData = <<>>
    /\ bestCost = Infinity
    /\ bestNetwork = Null
    /\ gen = 0
    /\ candidateCost = 0
    /\ network = Null
    /\ manholes = <<>>
    /\ pipes = <<>>
    /\ result = Null
    /\ checks = <<>>
    /\ breakdown = Null
    /\ callLog = <<>>
    /\ costLog = {}

NextView ==
    \/ handleNewProject
    \/ handleOpenProject
    \/ BackToDashboard
    \/ ProjectsTab
    \/ SelectTab
    \/ runOptimizer
    \/ IntervalCallback

SpecView == InitView /\ [][NextView]_vars

\* ScanView: the application starts on the home tab
NextScan ==
    \/ onTabChange
    \/ onBack
    \/ startScan
    \/ PreparingTimeout
    \/ StaleTimeout
    \/ ScanTick
    \/ AnalyzingTimeout

SpecScan == Init /\ [][NextScan]_vars

\* ------------------------------------------------------------------------
\* Properties
\* ------------------------------------------------------------------------

\* the networks generateOptimizedNetwork has returned that the run still holds
NetworksInState == {net \in {bestNetwork, network} : net # Null}

\* every pipe built so far: those of the networks held and those of the
\* network under construction
PipesInState ==
    {pipes[i] : i \in 1..Len(pipes)}
      \cup UNION {{net.pipes[i] : i \in 1..Len(net.pipes)} :
                    net \in NetworksInState}

Returned == pc \in {"done", "checked"}

WellFormedChain(net, n) ==
    /\ Len(net.manholes) = n + 1
    /\ Len(net.pipes) = n
    /\ \A i, j \in 1..Len(net.manholes) :
          i # j => net.manholes[i].id # net.manholes[j].id
    /\ \A i, j \in 1..Len(net.pipes) :
          i # j => net.pipes[i].id # net.pipes[j].id
    /\ \A i \in 1..Len(net.pipes) :
          /\ i + 1 <= Len(net.manholes)
          /\ net.pipes[i].fromNode = net.manholes[i].id
          /\ net.pipes[i].toNode = net.manholes[i + 1].id

\* C1: every network returned by generateOptimizedNetwork for a segment
\* count N has N+1 manholes and N pipes, pairwise distinct manhole ids and
\* pipe ids, and pipe i runs from manhole i to manhole i+1.
Thm_C1 == \A net \in NetworksInState : WellFormedChain(net, numPipes)

\* a returned network with an interior manhole
Witness_C1 == Returned /\ Len(result.network.pipes) >= 2

\* C2: the network runGeneticOptimizer returns costs no more than any
\* network generateOptimizedNetwork produced during the run.
Claim_C2 ==
    Returned => \A cost \in costLog : result.network.totalCost <= cost

\* no catalog diameter carries the flow within the velocity band at the slope
NoCatalogFit(flow, slope) ==
    \A k \in 1..Len(STANDARD_DIAMETERS) :
        LET dia == STANDARD_DIAMETERS[k]
        IN  ~ /\ manningsFlow(dia, slope) >= flow
              /\ pipeVelocity(dia, slope) >= min_velocity
              /\ pipeVelocity(dia, slope) <= max_velocity

\* C3: a network with a segment for which no catalog diameter meets the
\* design flow within the velocity band (the 1200 mm fallback) has
\* nbcCompliant = false.
Claim_C3 ==
    \A net \in NetworksInState :
        (\E i \in 1..Len(net.pipes) :
            NoCatalogFit(SegmentFlow(peakRunoff, i - 1), net.pipes[i].slope))
        => ~net.nbcCompliant

\* C4: nbcCompliant is true exactly when every pipe has stored velocity in
\* [0.6, 3.0], stored fillRatio <= 0.80 and diameter >= 150.
Thm_C4 ==
    \A net \in NetworksInState :
        net.nbcCompliant <=>
            \A i \in 1..Len(net.pipes) :
                /\ net.pipes[i].velocity >= 60
                /\ net.pipes[i].velocity <= 300
                /\ net.pipes[i].fillRatio <= 80
                /\ net.pipes[i].diameter >= 150

\* a returned network that was found compliant
Witness_C4 == Returned /\ result.network.nbcCompliant

\* C5: every pipe's fillRatio lies in [0, 0.79], for every segment count.
Claim_C5 == \A p \in PipesInState : p.fillRatio >= 0 /\ p.fillRatio <= 79

\* C6: every pipe's riskScore, every manhole's floodRisk and every
\* network's floodRiskScore lie in 0..100.
Claim_C6 ==
    /\ \A p \in PipesInState : p.riskScore \in 0..100
    /\ \A i \in 1..Len(manholes) : manholes[i].floodRisk \in 0..100
    /\ \A net \in NetworksInState :
          /\ net.floodRiskScore \in 0..100
          /\ \A i \in 1..Len(net.manholes) :
                net.manholes[i].floodRisk \in 0..100

\* C7: every pipe's slope lies between min_slope and max_slope.
Claim_C7 ==
    \A p \in PipesInState : p.slope >= min_slope /\ p.slope <= max_slope

RuleOrder ==
    << "Self-Cleansing Velocity", "Maximum Velocity", "Pipe Fill Ratio",
       "Minimum Pipe Diameter", "Minimum Longitudinal Slope",
       "Manhole Spacing", "Freeboard Factor", "Seismic Zone III Provisions",
       "Environmental Clearance" >>

\* C8: runNBCCompliance returns exactly nine checks, in the fixed rule
\* order, whatever the verdicts are.
Thm_C8 ==
    pc = "checked" =>
        /\ Len(checks) = 9
        /\ \A k \in 1..9 : checks[k].rule = RuleOrder[k]

\* an evaluation in which an early rule fails
Witness_C8 ==
    /\ pc = "checked"
    /\ \E k \in 1..4 : k <= Len(checks) /\ checks[k].status = "fail"

\* C9 as stated: only Manhole Spacing, Seismic Zone III Provisions and
\* Environmental Clearance ever have status warn.
Claim_C9 ==
    pc = "checked" =>
        \A k \in 1..Len(checks) :
            checks[k].status = "warn" =>
                checks[k].rule \in {"Manhole Spacing",
                                    "Seismic Zone III Provisions",
                                    "Environmental Clearance"}

\* C9 amended: the velocity, fill-ratio and minimum-diameter rules and
\* Manhole Spacing are never warn; a warn comes only from Minimum
\* Longitudinal Slope, Freeboard Factor, Seismic Zone III Provisions or
\* Environmental Clearance.
Thm_C9 ==
    pc = "checked" =>
        \A k \in 1..Len(checks) :
            checks[k].status = "warn" =>
                checks[k].rule \in {"Minimum Longitudinal Slope",
                                    "Freeboard Factor",
                                    "Seismic Zone III Provisions",
                                    "Environmental Clearance"}

\* an evaluation in which the Freeboard Factor rule warns while the
\* Maximum Velocity rule fails
Witness_C9 ==
    /\ pc = "checked"
    /\ \E k \in 1..Len(checks) :
          checks[k].rule = "Freeboard Factor" /\ checks[k].status = "warn"
    /\ \E k \in 1..Len(checks) :
          checks[k].rule = "Maximum Velocity" /\ checks[k].status = "fail"

\* C10: the result has one convergenceData entry per generation, retained
\* or not, and iterations equal to generations.
Thm_C10 ==
    Returned =>
        /\ Len(result.convergenceData) = generations
        /\ result.iterations = generations

\* a finished run of at least four generations one of which was not retained
Witness_C10 ==
    /\ Returned
    /\ result.iterations >= 4
    /\ Len(callLog) < result.iterations

\* C11: for a catchment of positive area and at least one segment the
\* reported savings equal max(0, round((naiveCost - totalCost) / naiveCost
\* * 100)) and are never negative, so a network that costs more than the
\* naive design reports 0.
Thm_C11 ==
    (Returned /\ catchment.area > 0 /\ numPipes >= 1) =>
        LET naiveCost == estimateNaiveCost(catchment, numPipes)
            totalCost == result.network.totalCost
            rounded   == RoundDiv((naiveCost - totalCost) * 100, naiveCost)
        IN  /\ result.savings >= 0
            /\ result.savings = IF rounded > 0 THEN rounded ELSE 0
            /\ totalCost > naiveCost => result.savings = 0

\* a run over a catchment of positive area whose network costs more than
\* the naive design
Witness_C11 ==
    /\ Returned
    /\ catchment.area > 0
    /\ result.network.totalCost > estimateNaiveCost(catchment, numPipes)
    /\ result.savings = 0

\* C12: runGeneticOptimizer returns a network in every run; with
\* generations = 0 the loop body never runs and exactly one network is
\* generated, by the fallback call after the loop.
Thm_C12 ==
    Returned =>
        /\ result.network # Null
        /\ generations = 0 =>
              /\ callLog = <<Fallback>>
              /\ Cardinality(costLog) = 1
              /\ result.convergenceData = <<>>
              /\ bestNetwork = Null

\* a finished run with a budget of zero generations
Witness_C12 == Returned /\ generations = 0 /\ Len(result.network.pipes) >= 1

\* the catalog indices whose diameter carries the flow within the velocity
\* band at the slope
CatalogFits(flow, slope) ==
    {k \in 1..Len(STANDARD_DIAMETERS) :
        LET dia == STANDARD_DIAMETERS[k]
        IN  /\ manningsFlow(dia, slope) >= flow
            /\ pipeVelocity(dia, slope) >= min_velocity
            /\ pipeVelocity(dia, slope) <= max_velocity}

\* C13: the diameter selected for a segment is the smallest catalog diameter
\* whose capacity at the slope (floored at the minimum slope) is at least
\* the required flow and whose velocity lies in [0.6, 3.0] m/s; no smaller
\* catalog diameter satisfies both, and it is 1200 when none does.  Stated
\* of the pipe just pushed: every pipe of a network is at one time the last
\* element of pipes, and is not changed afterwards.
Thm_C13 ==
    pipes # <<>> =>
        LET i     == Len(pipes)
            flow  == SegmentFlow(peakRunoff, i - 1)
            slope == Max(pipes[i].slope, min_slope)
            fits  == CatalogFits(flow, slope)
            dia   == pipes[i].diameter
        IN  IF fits = {} THEN dia = 1200
            ELSE /\ \E k \in fits : STANDARD_DIAMETERS[k] = dia
                 /\ \A k \in fits : STANDARD_DIAMETERS[k] >= dia

\* a pushed pipe whose selected diameter is preceded in the catalog by
\* diameters that do not qualify
Witness_C13 ==
    /\ pipes # <<>>
    /\ pipes[Len(pipes)].diameter > 150
    /\ CatalogFits(SegmentFlow(peakRunoff, Len(pipes) - 1),
                   pipes[Len(pipes)].slope) # {}

\* C14: every pipe diameter is a member of the catalog, for every required
\* flow, zero and negative flows included, and every slope.
Thm_C14 ==
    \A p \in PipesInState :
        \E k \in 1..Len(STANDARD_DIAMETERS) : STANDARD_DIAMETERS[k] = p.diameter

\* a returned chain with a segment of negative design flow and a segment
\* for which no catalog diameter qualifies
Witness_C14 ==
    /\ Returned
    /\ \E i \in 1..Len(result.network.pipes) :
          SegmentFlow(peakRunoff, i - 1) < 0
    /\ \E i \in 1..Len(result.network.pipes) :
          CatalogFits(SegmentFlow(peakRunoff, i - 1),
                      result.network.pipes[i].slope) = {}

\* C15: the material of a pipe is decided by the table: diameter <= 300 and
\* slope < 5 % give PVC; otherwise diameter <= 450 on soil other than rocky
\* gives HDPE; every remaining case gives RCC.
Thm_C15 ==
    \A net \in NetworksInState :
        \A i \in 1..Len(net.pipes) :
            LET p     == net.pipes[i]
                small == p.diameter <= 300 /\ p.slope < 5000
                mid   == p.diameter <= 450 /\ net.catchment.soilType # "rocky"
            IN  /\ p.material \in {"PVC", "HDPE", "RCC"}
                /\ small => p.material = "PVC"
                /\ (~small /\ mid) => p.material = "HDPE"
                /\ (~small /\ ~mid) => p.material = "RCC"

\* a network on rocky soil with a pipe of at most 450 mm that is not PVC
Witness_C15 ==
    \E net \in NetworksInState :
        \E i \in 1..Len(net.pipes) :
            /\ net.pipes[i].diameter <= 450
            /\ net.catchment.soilType = "rocky"
            /\ net.pipes[i].material = "RCC"

\* the rate of the smallest key >= the diameter in the table of the material
NearestFitRate(p) ==
    LET rateMap == IF p.material = "RCC" THEN rcc_pipe_per_m ELSE pvc_pipe_per_m
        fits    == {k \in DOMAIN rateMap : k >= p.diameter}
    IN  rateMap[CHOOSE k \in fits : \A j \in fits : k <= j]

\* the cost of a network, in rupees, with every pipe priced at the rate of
\* the smallest key >= its diameter
NearestFitCost(net) ==
    SeqSum([i \in 1..Len(net.pipes) |->
              LET p == net.pipes[i]
              IN  RoundDiv(NearestFitRate(p) * p.length, 10)
                    + RoundDiv(TrenchVol(p)
                                 * (excavation_per_m3 + backfill_per_m3), 1000)
                    + RoundDiv(p.length * labor_per_day * 5, 100)])
      + SeqSum([i \in 1..Len(net.manholes) |-> ManholeCost(net.manholes[i])])

\* C22: the per-metre rate estimateNetworkCost uses for a pipe is the rate
\* of the smallest key >= the pipe's diameter, in the RCC table for RCC and
\* in the PVC table for every other material, without an exact key match
\* (an RCC pipe of 150 mm is priced at the 300 mm RCC rate); stated of the
\* totalCost of every generated network.
Thm_C22 ==
    \A net \in NetworksInState :
        net.totalCost = RoundDiv(NearestFitCost(net), 10000)

\* a network with an RCC pipe narrower than every key of the RCC table,
\* priced at the 300 mm rate
Witness_C22 ==
    \E net \in NetworksInState :
        \E i \in 1..Len(net.pipes) :
            /\ net.pipes[i].material = "RCC"
            /\ net.pipes[i].diameter = 150
            /\ NearestFitRate(net.pipes[i]) = rcc_pipe_per_m[300]

\* the rate of the largest key of the rate table of a material
LargestKeyRate(material) ==
    LET rateMap == IF material = "RCC" THEN rcc_pipe_per_m ELSE pvc_pipe_per_m
        top     == CHOOSE k \in DOMAIN rateMap : \A j \in DOMAIN rateMap : j <= k
    IN  rateMap[top]

\* the pipe of the argument network has a diameter above every key of its
\* rate table
Unmatched(p) ==
    LET rateMap == IF p.material = "RCC" THEN rcc_pipe_per_m ELSE pvc_pipe_per_m
    IN  \A k \in DOMAIN rateMap : k < p.diameter

\* C21 as stated: a pipe whose diameter is above every key of its rate
\* table is priced at the default of 2000 per metre.
Claim_C21 ==
    pc = "returned" =>
        LET p == network.pipes[1]
        IN  Unmatched(p) =>
                breakdown.pipeMaterial =
                    RoundLakh(RoundDiv(2000 * p.length, 10))

\* C21 amended: a pipe whose diameter is above every key of its rate table
\* is priced at the rate of the largest key of that table (13500 per metre
\* in the PVC table, 15000 in the RCC table); the default of 2000 is never
\* used.
Thm_C21 ==
    pc = "returned" =>
        LET p == network.pipes[1]
        IN  Unmatched(p) =>
                breakdown.pipeMaterial =
                    RoundLakh(RoundDiv(LargestKeyRate(p.material) * p.length,
                                       10))

\* the breakdown of a network whose RCC pipe is wider than every key
Witness_C21 ==
    /\ pc = "returned"
    /\ network.pipes[1].diameter > 1200
    /\ network.pipes[1].material = "RCC"
    /\ breakdown.pipeMaterial > 0

\* C16 as stated: each itemized amount of getCostBreakdown (pipe material,
\* excavation, labor, manholes priced by depth class) equals the amount
\* estimateNetworkCost charged for that item.
Claim_C16 ==
    breakdown # Null =>
        LET ps  == result.network.pipes
            mhs == result.network.manholes
        IN  /\ breakdown.pipeMaterial =
                  RoundLakh(SeqSum([i \in 1..Len(ps) |->
                      RoundDiv(PipeRate(ps[i]) * ps[i].length, 10)]))
            /\ breakdown.excavation =
                  RoundLakh(SeqSum([i \in 1..Len(ps) |->
                      RoundDiv(TrenchVol(ps[i]) * excavation_per_m3, 1000)]))
            /\ breakdown.labor =
                  RoundLakh(SeqSum([i \in 1..Len(ps) |->
                      RoundDiv(ps[i].length * labor_per_day * 5, 100)]))
            /\ breakdown.manholes =
                  RoundLakh(SeqSum([i \in 1..Len(mhs) |->
                      ManholeCost(mhs[i])]))

\* the sum of the five rounded items of a breakdown, in 0.1 lakh
ItemSum(b) == b.pipeMaterial + b.manholes + b.excavation + b.labor + b.backfill

\* C17: the total of a cost breakdown differs from the sum of its five
\* rounded items by at most 0.3 lakh.
Thm_C17 ==
    breakdown # Null =>
        /\ breakdown.total - ItemSum(breakdown) <= 3
        /\ ItemSum(breakdown) - breakdown.total <= 3

\* a breakdown whose total is not the sum of its rounded items
Witness_C17 ==
    /\ breakdown # Null
    /\ breakdown.manholes > 0
    /\ breakdown.total # ItemSum(breakdown)

\* C18: with area = 0 the peak runoff is 0 and, for every segment count,
\* every pipe has fillRatio 0 and a catalog diameter; the run returns with
\* savings and floodRiskScore in 0..100 and a totalCost that is a number.
Thm_C18 ==
    (pc # "idle" /\ catchment.area = 0) =>
        /\ peakRunoff = 0
        /\ \A p \in PipesInState :
              /\ p.fillRatio = 0
              /\ \E k \in 1..Len(STANDARD_DIAMETERS) :
                    STANDARD_DIAMETERS[k] = p.diameter
        /\ Returned =>
              /\ result.savings \in 0..100
              /\ result.network.floodRiskScore \in 0..100
              /\ result.network.totalCost \in Nat

\* a finished run over the zero-area catchment with the largest segment
\* count
Witness_C18 ==
    /\ Returned
    /\ catchment.area = 0
    /\ numPipes = MaxPipes
    /\ Len(result.network.pipes) = MaxPipes

\* C19 as stated: each pipe length does not exceed max_manhole_spacing
\* (60 m).
Claim_C19 == \A p \in PipesInState : p.length <= max_manhole_spacing

\* C20: in a generated network manhole 0 holds pipes[0].riskScore, an
\* interior manhole i holds pipes[i].riskScore, the risk of its downstream
\* pipe, and manhole N holds pipes[N-1].riskScore.
Thm_C20 ==
    \A net \in NetworksInState :
        LET n == Len(net.pipes)
        IN  /\ \A j \in 1..n :
                  net.manholes[j].floodRisk = net.pipes[j].riskScore
            /\ net.manholes[n + 1].floodRisk = net.pipes[n].riskScore

\* a network whose interior manhole lies between pipes of different risk
Witness_C20 ==
    \E net \in NetworksInState :
        /\ Len(net.pipes) >= 2
        /\ net.pipes[1].riskScore > net.pipes[2].riskScore
        /\ net.manholes[2].floodRisk = net.pipes[2].riskScore

\* C23: in every generated network manhole 0 has type inlet, manhole N has
\* type outlet and every other manhole has type junction, so there is
\* exactly one inlet and exactly one outlet.
Thm_C23 ==
    \A net \in NetworksInState :
        LET mhs == net.manholes
            n   == Len(net.pipes)
        IN  /\ n >= 1
            /\ mhs[1].type = "inlet"
            /\ mhs[n + 1].type = "outlet"
            /\ \A j \in 2..n : mhs[j].type = "junction"
            /\ Cardinality({j \in 1..Len(mhs) : mhs[j].type = "inlet"}) = 1
            /\ Cardinality({j \in 1..Len(mhs) : mhs[j].type = "outlet"}) = 1

\* a returned network with a junction between its inlet and its outlet
Witness_C23 ==
    /\ Returned
    /\ \E j \in 1..Len(result.network.manholes) :
          result.network.manholes[j].type = "junction"

\* C24: in every generated network, whatever the jitter, the invert of each
\* manhole is strictly below its rim, and invert and rim strictly decrease
\* from each manhole to the next.
Thm_C24 ==
    \A net \in NetworksInState :
        LET mhs == net.manholes
        IN  /\ \A j \in 1..Len(mhs) : mhs[j].invert < mhs[j].rim
            /\ \A j \in 1..(Len(mhs) - 1) :
                  /\ mhs[j + 1].invert < mhs[j].invert
                  /\ mhs[j + 1].rim < mhs[j].rim

\* a network in which a manhole with the largest jitter is followed by one
\* with none, the least drop of the invert
Witness_C24 ==
    \E net \in NetworksInState :
        \E j \in 1..(Len(net.manholes) - 1) :
            net.manholes[j].invert - net.manholes[j + 1].invert < 1000

\* what a step of runGeneticOptimizer with generations >= 1 may do
OptimizerStep ==
    /\ bestCost' <= bestCost
    /\ (pc = "loop" /\ pc' = "manholes") =>
          IF gen < generations
          THEN /\ candidateCost' < bestCost
               /\ bestCost' = candidateCost'
               /\ callLog' = Append(callLog, gen)
          ELSE /\ generations = 0
               /\ callLog' = <<Fallback>>
    /\ (pc = "loop" /\ pc' = "loop") =>
          /\ gen >= 1
          /\ candidateCost' >= bestCost
          /\ callLog' = callLog
          /\ bestNetwork' = bestNetwork
    /\ (pc = "aggregate" /\ pc' = "loop") =>
          /\ bestNetwork'.pipes = pipes
          /\ bestNetwork'.manholes = manholes
    /\ callLog' # callLog => pc \in {"idle", "loop"}

\* what holds of the calls made so far and of the returned network
OptimizerCalls ==
    /\ \A i, j \in 1..Len(callLog) : i < j => callLog[i] < callLog[j]
    /\ (Returned /\ generations >= 1) =>
          /\ Len(callLog) >= 1
          /\ callLog[1] = 0
          /\ \A i \in 1..Len(callLog) : callLog[i] # Fallback
          /\ result.network = bestNetwork

\* C25: with generations >= 1, generation 0 always generates a network;
\* generateOptimizedNetwork is called exactly once for each generation whose
\* candidate cost is strictly below the running best and never otherwise;
\* the running best never increases; the returned network is the one
\* generated at the last improving generation, and the fallback after the
\* loop is used only when generations = 0.
Thm_C25 == []OptimizerCalls /\ [][OptimizerStep]_vars

\* a finished run in which generateOptimizedNetwork was called for at least
\* three generations and not called for another
Witness_C25 ==
    /\ Returned
    /\ Len(callLog) >= 3
    /\ Len(callLog) < generations
    /\ result.network = bestNetwork

\* C26: for every network whose nbcCompliant is true, runNBCCompliance
\* returns no check with status fail.
Thm_C26 ==
    (pc = "checked" /\ result.network.nbcCompliant) =>
        \A k \in 1..Len(checks) : checks[k].status # "fail"

\* an evaluated network of two pipes whose flag is true
Witness_C26 ==
    /\ pc = "checked"
    /\ result.network.nbcCompliant
    /\ Len(result.network.pipes) >= 2
    /\ Len(checks) = 9

\* C30: no pipe of a generated network has material CI, and the Seismic
\* Zone III Provisions check of runNBCCompliance is pass.
Thm_C30 ==
    /\ \A p \in PipesInState : p.material # "CI"
    /\ pc = "checked" =>
          \A k \in 1..Len(checks) :
              checks[k].rule = "Seismic Zone III Provisions" =>
                  checks[k].status = "pass"

\* an evaluated network on rocky soil with a pipe for which selectMaterial
\* took its last branch
Witness_C30 ==
    /\ pc = "checked"
    /\ catchment.soilType = "rocky"
    /\ \E i \in 1..Len(result.network.pipes) :
          result.network.pipes[i].diameter <= 450
    /\ \E k \in 1..Len(checks) :
          checks[k].rule = "Seismic Zone III Provisions"

\* C27 as stated: after New Project the network of DrainageView stays null
\* until an optimization started after that New Project completes; an
\* interval started earlier never delivers its result into the new project.
Claim_C27 == viewNetwork # Null => ~viewNetwork.beforeNewProject

\* C28: whenever the canvas screen is shown with the 3d tab active, the
\* network of DrainageView is not null.
Thm_C28 == (screen = "canvas" /\ activeTab = "3d") => viewNetwork # Null

\* the 3D view of a project opened after the optimization has completed
Witness_C28 ==
    /\ screen = "canvas"
    /\ activeTab = "3d"
    /\ viewNetwork # Null
    /\ runs = <<>>
    /\ runsStarted >= 1

\* the successor of a phase
NextPhase ==
    [idle |-> "preparing", preparing |-> "scanning", scanning |-> "analyzing",
     analyzing |-> "complete", complete |-> "complete"]

\* what holds of a ScanView in every state
ScanState ==
    /\ progress \in 0..100
    /\ progress % 2 = 0
    /\ completions = (IF phase = "complete" THEN 1 ELSE 0)

\* what a step may do to the ScanView that is mounted before and after it
ScanStep ==
    scans' = scans =>
        /\ phase' # phase => phase' = NextPhase[phase]
        /\ (phase = "scanning" /\ phase' # "scanning") => progress = 100
        /\ progress' # progress => progress' = progress + 2
        /\ phase = "complete" => phase' = "complete"
        /\ completions' # completions =>
              /\ phase = "analyzing"
              /\ phase' = "complete"
              /\ completions' = completions + 1

\* C29: the phase of a ScanView moves forward one step at a time along
\* idle, preparing, scanning, analyzing, complete; scanning is left only
\* when progress is 100, progress rises from 0 in steps of 2 and never
\* exceeds 100; complete is terminal; onComplete is invoked exactly once,
\* at the transition from analyzing to complete.
Thm_C29 == []ScanState /\ [][ScanStep]_vars

\* the second ScanView that Index mounted has completed its scan
Witness_C29 ==
    /\ scans = 2
    /\ phase = "complete"
    /\ progress = 100
    /\ completions = 1
    /\ indexTab = "reports"

====
